---- MODULE Spec2Model ----
(***************************************************************************)
(* Model of the movie / TV-show picker (src/src/db.ts).  The file holds    *)
(* several successive variants of the page script; the model follows the   *)
(* last one, the dual-catalog variant (lines 869-1132), on top of the      *)
(* store declaration and seeding function of lines 118-141.                *)
(*                                                                         *)
(* The page is single-threaded.  A handler runs without interruption up to *)
(* its next `await` of a store call.  `queue` holds the issued calls in    *)
(* the order of issue, each with its continuation.  Every call is one      *)
(* IndexedDB transaction: a writing call is served when it is the oldest   *)
(* pending call, and reading calls that no older writing call precedes are *)
(* open together, so that any of them may answer first.  The Complete...   *)
(* actions serve a call and resume the handler that awaits it.  User       *)
(* events interleave freely between two completions.                       *)
(*                                                                         *)
(* The ingestion utility (src/unnamed/part_000 for the movies, gen-tv.ts   *)
(* for the shows) is a script of its own, run offline; SpecIngest is its   *)
(* model and leaves the page alone, as the page leaves the utility alone.  *)
(***************************************************************************)
EXTENDS Integers, Sequences, FiniteSets, TLC

(***************************************************************************)
(* Bounds of the model.                                                    *)
(***************************************************************************)
\* store calls that may be pending at the same time
MaxInFlight == 2
\* user events (typing, changing a control, clicking) in one run
MaxEvents == 3
\* Selection rows in the store a page load finds
MaxRows == 2

(***************************************************************************)
(* The data: a small universe of media items.  Ids stand for the external  *)
(* id strings, in primary-key order.  Ratings and match scores are in      *)
(* tenths.                                                                 *)
(***************************************************************************)
ItemIds == 1..5

ItemTitle == <<"Dune", "Alien", "Arrival", "Dark", "Dune">>
ItemYear == <<2021, 1979, 2016, 2017, 1979>>
ItemRating == <<80, 85, 79, 87, 80>>
ItemGenre == << <<"SciFi", "Drama">>, <<"SciFi", "Horror">>, <<"SciFi", "Drama">>,
                <<"Drama", "Mystery">>, <<"SciFi">> >>

\* Movie / TvShow (interfaces of db.ts, the fields the pipeline reads)
Item(i) ==
  [id |-> i, title |-> ItemTitle[i], year |-> ItemYear[i],
   rating |-> ItemRating[i], genre |-> ItemGenre[i]]

\* movies.json and tv-shows.json, the bundled datasets
movieList == {Item(1), Item(2), Item(3)}
tvShowList == {Item(4), Item(5)}

\* String.prototype.localeCompare on the titles: the collation rank
TitleRank(t) ==
  CASE t = "Alien" -> 1
    [] t = "Arrival" -> 2
    [] t = "Dark" -> 3
    [] t = "Dune" -> 4
    [] OTHER -> 5

localeCompare(a, b) == TitleRank(a) - TitleRank(b)

\* the default Array.prototype.sort order (UTF-16 code units) on genre labels
GenreRank(g) ==
  CASE g = "Drama" -> 1
    [] g = "Horror" -> 2
    [] g = "Mystery" -> 3
    [] g = "SciFi" -> 4
    [] OTHER -> 5

\* what the user may type in the search field, and String.prototype.toLowerCase
SearchValues == {"", "a", "Du"}

toLowerCase(s) == IF s = "Du" THEN "du" ELSE s

\* Fuse's match score of an item for a (lower-cased) query, 0 = perfect match
Score(i, q) ==
  CASE q = "a" -> <<6, 1, 2, 2, 6>>[i]
    [] q = "du" -> <<0, 7, 9, 3, 0>>[i]
    [] OTHER -> 10

\* fuseOptions.threshold (0.3)
Threshold == 3

\* the score of a result that did not come from the index (undefined)
NoScore == -1

SortValues == {"none", "title", "year", "rating"}

(***************************************************************************)
(* Sequences helpers.                                                      *)
(***************************************************************************)
Range(s) == {s[i] : i \in 1..Len(s)}

Front(s) == SubSeq(s, 1, Len(s) - 1)

Last(s) == s[Len(s)]

RECURSIVE MapItems(_)
\* results.map((result) => result.item)
MapItems(results) ==
  IF results = <<>> THEN <<>>
  ELSE Append(MapItems(Front(results)), Last(results).item)

RECURSIVE WrapItems(_)
\* content.map((item, index) => ({ item, refIndex: index })): no score
WrapItems(items) ==
  IF items = <<>> THEN <<>>
  ELSE Append(WrapItems(Front(items)),
              [item |-> Last(items), score |-> NoScore])

Ids(items) == {items[i].id : i \in 1..Len(items)}

IdSeq(items) == [i \in 1..Len(items) |-> items[i].id]

(***************************************************************************)
(* The pure part of the page script.                                       *)
(***************************************************************************)
\* Compare with the year comparison the wrong way round (a.year - b.year)
CompareYearAscending(sortOption, a, b) ==
  CASE sortOption = "search" ->
         IF a.score = NoScore \/ b.score = NoScore THEN 0 ELSE a.score - b.score
    [] sortOption = "title" -> localeCompare(a.item.title, b.item.title)
    [] sortOption = "year" -> a.item.year - b.item.year
    [] sortOption = "rating" -> b.item.rating - a.item.rating
    [] OTHER -> 0

\* the comparator of sortResults; a subtraction with an undefined score is
\* NaN, which Array.prototype.sort takes as 0
Compare(sortOption, a, b) ==
  CASE sortOption = "search" ->
         IF a.score = NoScore \/ b.score = NoScore THEN 0 ELSE a.score - b.score
    [] sortOption = "title" -> localeCompare(a.item.title, b.item.title)
    [] sortOption = "year" -> b.item.year - a.item.year
    [] sortOption = "rating" -> b.item.rating - a.item.rating
    [] OTHER -> 0

RECURSIVE InsertResultBeforeEqual(_, _, _)
\* InsertResult of a sort that is not stable: x goes before its equals
InsertResultBeforeEqual(sorted, x, sortOption) ==
  IF sorted = <<>> THEN <<x>>
  ELSE IF Compare(sortOption, Last(sorted), x) < 0 THEN Append(sorted, x)
  ELSE Append(InsertResultBeforeEqual(Front(sorted), x, sortOption),
              Last(sorted))

RECURSIVE InsertResult(_, _, _)
\* Array.prototype.sort is stable: x goes after every element not greater
InsertResult(sorted, x, sortOption) ==
  IF sorted = <<>> THEN <<x>>
  ELSE IF Compare(sortOption, Last(sorted), x) <= 0 THEN Append(sorted, x)
  ELSE Append(InsertResult(Front(sorted), x, sortOption), Last(sorted))

RECURSIVE sortResults(_, _)
sortResults(results, sortOption) ==
  IF results = <<>> THEN <<>>
  ELSE InsertResult(sortResults(Front(results), sortOption), Last(results),
                    sortOption)

RECURSIVE toArray(_)
\* Table.toArray(): the rows of a collection in primary-key order
toArray(table) ==
  IF table = {} THEN <<>>
  ELSE LET top == CHOOSE r \in table : \A o \in table : o.id <= r.id
       IN Append(toArray(table \ {top}), top)

\* TitleInsert without the comparison: the rows stay in primary-key order
TitleInsertUnsorted(sorted, x) == Append(sorted, x)

RECURSIVE TitleInsert(_, _)
TitleInsert(sorted, x) ==
  IF sorted = <<>> THEN <<x>>
  ELSE IF localeCompare(Last(sorted).title, x.title) <= 0 THEN Append(sorted, x)
  ELSE Append(TitleInsert(Front(sorted), x), Last(sorted))

RECURSIVE SortByTitle(_)
\* (await db.X.toArray()).sort((a, b) => a.title.localeCompare(b.title))
SortByTitle(items) ==
  IF items = <<>> THEN <<>>
  ELSE TitleInsert(SortByTitle(Front(items)), Last(items))

\* new Fuse(content, fuseOptions): the index is the snapshot it was built from
initFuse(items) == [built |-> TRUE, docs |-> items]

\* the index the page holds before fetchContent has built one
NullFuse == [built |-> FALSE, docs |-> <<>>]

RECURSIVE RankInsert(_, _)
RankInsert(sorted, x) ==
  IF sorted = <<>> THEN <<x>>
  ELSE IF Last(sorted).score <= x.score THEN Append(sorted, x)
  ELSE Append(RankInsert(Front(sorted), x), Last(sorted))

RECURSIVE Rank(_)
Rank(results) ==
  IF results = <<>> THEN <<>>
  ELSE RankInsert(Rank(Front(results)), Last(results))

RECURSIVE ScoreDocs(_, _)
ScoreDocs(docs, q) ==
  IF docs = <<>> THEN <<>>
  ELSE Append(ScoreDocs(Front(docs), q),
              [item |-> Last(docs), score |-> Score(Last(docs).id, q)])

\* fuse.search(query): the documents within the threshold, best score first,
\* equal scores in index order
FuseSearch(index, q) ==
  LET Within(r) == r.score <= Threshold
  IN Rank(SelectSeq(ScoreDocs(index.docs, q), Within))

\* Includes with the comparison negated (!== for ===)
IncludesOther(genre, g) == \E i \in 1..Len(genre) : genre[i] # g

\* Array.prototype.includes on a genre list
Includes(genre, g) == \E i \in 1..Len(genre) : genre[i] = g

RECURSIVE SortGenres(_)
SortGenres(gs) ==
  IF gs = {} THEN <<>>
  ELSE LET top == CHOOSE g \in gs : \A o \in gs : GenreRank(o) <= GenreRank(g)
       IN Append(SortGenres(gs \ {top}), top)

\* GenreOptions built once for both catalogs: the genres of every item
GenreOptionsOfAll(items) ==
  <<"">> \o SortGenres(UNION {Range(ItemGenre[i]) : i \in ItemIds})

\* populateGenres: the 'All Genres' option, then the distinct genres, sorted
GenreOptions(items) ==
  <<"">> \o SortGenres(UNION {Range(items[i].genre) : i \in 1..Len(items)})

\* Evaluate without the isSearch override: always the sort control
EvaluateBySortControl(items, index, sv, g, so, isSearch) ==
  LET searchQuery == toLowerCase(sv)
      found == IF searchQuery # "" THEN FuseSearch(index, searchQuery)
               ELSE WrapItems(items)
      HasGenre(r) == Includes(r.item.genre, g)
      results == IF g # "" THEN SelectSeq(found, HasGenre) ELSE found
  IN MapItems(sortResults(results, so))

\* Evaluate as the first variant of the script ordered: by score whenever
\* there is a query
EvaluateByScoreOnQuery(items, index, sv, g, so, isSearch) ==
  LET searchQuery == toLowerCase(sv)
      found == IF searchQuery # "" THEN FuseSearch(index, searchQuery)
               ELSE WrapItems(items)
      HasGenre(r) == Includes(r.item.genre, g)
      results == IF g # "" THEN SelectSeq(found, HasGenre) ELSE found
      sortOptionValue == IF isSearch \/ searchQuery # "" THEN "search"
                         ELSE so
  IN MapItems(sortResults(results, sortOptionValue))

\* Evaluate keeping the unfiltered results when the genre filter leaves none
EvaluateKeepOnEmpty(items, index, sv, g, so, isSearch) ==
  LET searchQuery == toLowerCase(sv)
      found == IF searchQuery # "" THEN FuseSearch(index, searchQuery)
               ELSE WrapItems(items)
      HasGenre(r) == Includes(r.item.genre, g)
      results == IF g # "" /\ SelectSeq(found, HasGenre) # <<>>
                 THEN SelectSeq(found, HasGenre) ELSE found
      sortOptionValue == IF isSearch THEN "search" ELSE so
  IN MapItems(sortResults(results, sortOptionValue))

\* filterContent up to its await: the list it is going to display
Evaluate(items, index, sv, g, so, isSearch) ==
  LET searchQuery == toLowerCase(sv)
      found == IF searchQuery # "" THEN FuseSearch(index, searchQuery)
               ELSE WrapItems(items)
      HasGenre(r) == Includes(r.item.genre, g)
      results == IF g # "" THEN SelectSeq(found, HasGenre) ELSE found
      sortOptionValue == IF isSearch THEN "search" ELSE so
  IN MapItems(sortResults(results, sortOptionValue))

(***************************************************************************)
(* The state.                                                              *)
(***************************************************************************)
VARIABLES
  dbMovies,            \* db.movies: the persisted rows
  dbTvShows,           \* db.tvShows
  dbSelected,          \* db.selected, in primary-key order
  nextId,              \* the next key of db.selected ("++id")
  queue,               \* the issued store calls, each with its continuation
  pc,                  \* the position of the DOMContentLoaded handler
  movies,              \* what fetchContent returned
  tvShows,
  movieFuse,
  tvShowFuse,
  currentContentType,  \* the three `let` variables of the handler
  content,
  fuse,
  searchValue,         \* #search-input
  genreValue,          \* #genre-filter
  genreOptions,
  sortValue,           \* #sort-options
  debounceTimeoutId,   \* TRUE while the debounce timer is armed
  grid,                \* #content-grid: the cards
  selectedBox,         \* #selected-box: the <li> rows
  shown,               \* the call of displayContent that drew the grid
  show,                \* #selected-box carries the class "show"
  clipboard,           \* the text last written to the clipboard
  blurTimeoutId,       \* TRUE while the blur timer is armed
  focused,             \* #search-input has the focus
  errors,              \* the errors raised so far: where, and caught or not
  snaps,               \* history: membership before the last isolated toggles
  events,              \* history: the user events so far
  nfoFiles,            \* the ingestion utility: the .nfo files of nfosDir
  nfoAt,               \* the place in nfoFiles of the file the loop is at
  toolPc,              \* the position of processNfoFiles
  response,            \* what fetch(url) gave downloadImage
  entries,             \* its array `movies` (`tvShows` in gen-tv.ts)
  images,              \* the files written under public/images, in order
  failedDownloads,     \* failed_downloads.txt, line by line
  outputJson           \* src/movies.json (src/tv-shows.json)

vars ==
  <<dbMovies, dbTvShows, dbSelected, nextId, queue, pc, movies, tvShows,
    movieFuse, tvShowFuse, currentContentType, content, fuse, searchValue,
    genreValue, genreOptions, sortValue, debounceTimeoutId, grid, selectedBox,
    shown, show, clipboard, blurTimeoutId, focused, errors, snaps, events,
    nfoFiles, nfoAt, toolPc, response, entries, images, failedDownloads,
    outputJson>>

dbVars == <<dbMovies, dbTvShows, dbSelected, nextId>>

fetched == <<movies, tvShows, movieFuse, tvShowFuse>>

active == <<currentContentType, content, fuse>>

controls == <<searchValue, genreValue, genreOptions, sortValue>>

aside == <<show, clipboard>>

blurring == <<blurTimeoutId, focused>>

tool ==
  <<nfoFiles, nfoAt, toolPc, response, entries, images, failedDownloads,
    outputJson>>

\* the page, for the steps of the ingestion utility
page ==
  <<dbMovies, dbTvShows, dbSelected, nextId, queue, pc, movies, tvShows,
    movieFuse, tvShowFuse, currentContentType, content, fuse, searchValue,
    genreValue, genreOptions, sortValue, debounceTimeoutId, grid, selectedBox,
    shown, show, clipboard, blurTimeoutId, focused, errors, snaps, events>>

\* no response at hand
NoResponse == [fetched |-> FALSE, contentType |-> <<>>, body |-> FALSE]

\* the ingestion utility is not running
ToolOff ==
  /\ nfoFiles = <<>>
  /\ nfoAt = 1
  /\ toolPc = "off"
  /\ response = NoResponse
  /\ entries = <<>>
  /\ images = <<>>
  /\ failedDownloads = <<>>
  /\ outputJson = <<>>

ToggleKinds == {"tRead", "tAdd", "tDelete", "tList"}

\* the calls that read only: count() and toArray()
ReadKinds ==
  {"count", "getMovies", "getTvShows", "getSelected", "tRead", "tList", "fRead"}

\* the store may answer call i of kind k now
Served(i, k) ==
  /\ i \in 1..Len(queue)
  /\ queue[i].k = k
  /\ \/ i = 1
     \/ \A j \in 1..i : queue[j].k \in ReadKinds

\* the pending calls once call i has been answered
Without(q, i) == SubSeq(q, 1, i - 1) \o SubSeq(q, i + 1, Len(q))

\* IsSelected reading the superseded field name (movieId), which no row has
IsSelectedByMovieId(selectedContent, contentId) ==
  \E j \in 1..Len(selectedContent) :
    /\ "movieId" \in DOMAIN selectedContent[j]
    /\ selectedContent[j].movieId = contentId

\* selectedContent.some((selectedItem) => selectedItem.refId === contentId)
IsSelected(selectedContent, contentId) ==
  \E j \in 1..Len(selectedContent) : selectedContent[j].refId = contentId

\* createContentCard, for every item of the list
Cards(items, selectedContent) ==
  [i \in 1..Len(items) |->
     [id |-> items[i].id, title |-> items[i].title, year |-> items[i].year,
      selected |-> IsSelected(selectedContent, items[i].id), busy |-> FALSE]]

\* updateSelectedBox: one <li> per selection
Box(selectedContent) ==
  [j \in 1..Len(selectedContent) |->
     [title |-> selectedContent[j].title, year |-> selectedContent[j].year]]

\* contentGrid.innerHTML = "": the cards that pending toggles hold leave the page
Detach(q) ==
  [i \in 1..Len(q) |->
     IF q[i].k \in ToggleKinds THEN [q[i] EXCEPT !.att = FALSE] ELSE q[i]]

\* a write to the class list or style of the card a toggle holds
WithCard(g, t, field, value) ==
  [i \in 1..Len(g) |->
     IF t.att /\ g[i].id = t.ref THEN [g[i] EXCEPT ![field] = value] ELSE g[i]]

Members(selectedContent) ==
  {selectedContent[j].refId : j \in 1..Len(selectedContent)}

NoRender ==
  [src |-> "none", cat |-> <<>>, q |-> "", genre |-> "", sort |-> "none",
   live |-> FALSE]

\* a Selection row of item i under primary key id
Row(id, i) ==
  [id |-> id, refId |-> i, title |-> ItemTitle[i], year |-> ItemYear[i]]

\* what a page load leaves alone: the handler has not run, the page is the
\* static document
Loading ==
  /\ queue = <<>>
  /\ pc = "load"
  /\ movies = <<>>
  /\ tvShows = <<>>
  /\ movieFuse = NullFuse
  /\ tvShowFuse = NullFuse
  /\ currentContentType = "movies"
  /\ content = <<>>
  /\ fuse = NullFuse
  /\ searchValue = ""
  /\ genreValue = ""
  /\ genreOptions = <<"">>
  /\ sortValue = "none"
  /\ debounceTimeoutId = FALSE
  /\ grid = <<>>
  /\ selectedBox = <<>>
  /\ shown = NoRender
  /\ show = FALSE
  /\ clipboard = <<>>
  /\ blurTimeoutId = FALSE
  /\ focused = FALSE
  /\ errors = {}
  /\ snaps = <<>>
  /\ events = 0

\* the page is loaded on a store never used, or on a seeded store; the
\* selection is empty (SpecStartup loads the page on stored selections)
Init ==
  /\ \/ /\ dbMovies = {}
        /\ dbTvShows = {}
     \/ /\ dbMovies = movieList
        /\ dbTvShows = tvShowList
  /\ dbSelected = <<>>
  /\ nextId = 1
  /\ Loading
  /\ ToolOff

\* a user event, within the bound of the model
UserEvent ==
  /\ events < MaxEvents
  /\ events' = events + 1

(***************************************************************************)
(* Startup: the DOMContentLoaded handler, initializeDatabase, seedDatabase *)
(* and fetchContent.                                                       *)
(***************************************************************************)
\* DOMContentLoaded with the listeners registered before the first await
DOMContentLoadedListenersFirst ==
  /\ pc = "load"
  /\ pc' = "ready"
  /\ queue' = Append(queue, [k |-> "count"])
  /\ UNCHANGED <<dbVars, fetched, active, controls, debounceTimeoutId, grid,
                 selectedBox, shown, snaps, events>>
  /\ UNCHANGED <<aside, blurring, errors, tool>>

\* await initializeDatabase(): db.movies.count()
DOMContentLoaded ==
  /\ pc = "load"
  /\ pc' = "init"
  /\ queue' = Append(queue, [k |-> "count"])
  /\ UNCHANGED <<dbVars, fetched, active, controls, debounceTimeoutId, grid,
                 selectedBox, shown, snaps, events>>
  /\ UNCHANGED <<aside, blurring, errors, tool>>

\* if ((await db.movies.count()) === 0) await seedDatabase(); else fetchContent
CompleteCount ==
  /\ queue # <<>> /\ Head(queue).k = "count"
  /\ queue' = Append(Tail(queue),
                     IF dbMovies = {} THEN [k |-> "putMovies"]
                     ELSE [k |-> "getMovies"])
  /\ UNCHANGED <<dbVars, pc, fetched, active, controls, debounceTimeoutId,
                 grid, selectedBox, shown, snaps, events>>
  /\ UNCHANGED <<aside, blurring, errors, tool>>

\* seedDatabase: await db.movies.bulkPut(movieList)
CompletePutMovies ==
  /\ queue # <<>> /\ Head(queue).k = "putMovies"
  /\ dbMovies' = dbMovies \cup movieList
  /\ queue' = Append(Tail(queue), [k |-> "putTvShows"])
  /\ UNCHANGED <<dbTvShows, dbSelected, nextId, pc, fetched, active, controls,
                 debounceTimeoutId, grid, selectedBox, shown, snaps, events>>
  /\ UNCHANGED <<aside, blurring, errors, tool>>

\* seedDatabase: await db.tvShows.bulkPut(tvShowList), then fetchContent
CompletePutTvShows ==
  /\ queue # <<>> /\ Head(queue).k = "putTvShows"
  /\ dbTvShows' = dbTvShows \cup tvShowList
  /\ queue' = Append(Tail(queue), [k |-> "getMovies"])
  /\ UNCHANGED <<dbMovies, dbSelected, nextId, pc, fetched, active, controls,
                 debounceTimeoutId, grid, selectedBox, shown, snaps, events>>
  /\ UNCHANGED <<aside, blurring, errors, tool>>

\* fetchContent: movies = (await db.movies.toArray()).sort(...)
CompleteGetMovies ==
  /\ queue # <<>> /\ Head(queue).k = "getMovies"
  /\ movies' = SortByTitle(toArray(dbMovies))
  /\ queue' = Append(Tail(queue), [k |-> "getTvShows"])
  /\ UNCHANGED <<dbVars, pc, tvShows, movieFuse, tvShowFuse, active, controls,
                 debounceTimeoutId, grid, selectedBox, shown, snaps, events>>
  /\ UNCHANGED <<aside, blurring, errors, tool>>

\* fetchContent: tvShows = (await db.tvShows.toArray()).sort(...)
CompleteGetTvShows ==
  /\ queue # <<>> /\ Head(queue).k = "getTvShows"
  /\ tvShows' = SortByTitle(toArray(dbTvShows))
  /\ queue' = Append(Tail(queue), [k |-> "getSelected"])
  /\ UNCHANGED <<dbVars, pc, movies, movieFuse, tvShowFuse, active, controls,
                 debounceTimeoutId, grid, selectedBox, shown, snaps, events>>
  /\ UNCHANGED <<aside, blurring, errors, tool>>

\* fetchContent after its last await (the indexes, the genre options, the
\* first render), and the rest of the handler: the listeners are registered
CompleteGetSelected ==
  /\ queue # <<>> /\ Head(queue).k = "getSelected"
  /\ movieFuse' = initFuse(movies)
  /\ tvShowFuse' = initFuse(tvShows)
  /\ genreOptions' = GenreOptions(movies)
  /\ genreValue' = ""
  /\ grid' = Cards(movies, dbSelected)
  /\ selectedBox' = Box(dbSelected)
  /\ shown' = [NoRender EXCEPT !.src = "fetch", !.cat = movies]
  /\ currentContentType' = "movies"
  /\ content' = movies
  /\ fuse' = initFuse(movies)
  /\ pc' = "ready"
  /\ queue' = Detach(Tail(queue))
  /\ UNCHANGED <<dbVars, movies, tvShows, searchValue, sortValue,
                 debounceTimeoutId, snaps, events>>
  /\ UNCHANGED <<aside, blurring, errors, tool>>

(***************************************************************************)
(* The pipeline: filterContent, from the three triggers and the debounced  *)
(* text input.                                                             *)
(***************************************************************************)
\* FilterRequest of a pipeline whose results replace the list it starts
\* from: the evaluation is over the items shown last, not over the catalog
FilterRequestOfShown(items, index, sv, g, so, isSearch) ==
  [k |-> "fRead",
   items |-> Evaluate([i \in 1..Len(grid) |-> Item(grid[i].id)], index, sv, g,
                      so, isSearch),
   cat |-> items, q |-> toLowerCase(sv), genre |-> g, sort |-> so,
   live |-> isSearch]

\* filterContent up to `await db.selected.toArray()`: the controls are read and
\* the list is computed now, it is displayed when the store has answered
FilterRequest(items, index, sv, g, so, isSearch) ==
  [k |-> "fRead", items |-> Evaluate(items, index, sv, g, so, isSearch),
   cat |-> items, q |-> toLowerCase(sv), genre |-> g, sort |-> so,
   live |-> isSearch]

\* a handler that threw outside every try block: an unhandled rejection
Uncaught(fn) == [in |-> fn, caught |-> FALSE]

\* a handler that logged the error in its catch block
Caught(fn) == [in |-> fn, caught |-> TRUE]

\* fuse.search(searchQuery) on the null index a failed fetchContent returned
Throws(index, sv) == ~index.built /\ toLowerCase(sv) # ""

\* "Cannot read properties of null (reading 'search')", thrown in filterContent
TypeError == [in |-> "fuse.search", caught |-> FALSE]

\* a call of filterContent: it throws on the null index, or computes the list
\* and awaits the selection rows
CallFilter(items, index, sv, g, so, isSearch) ==
  IF Throws(index, sv)
  THEN /\ queue' = queue
       /\ errors' = errors \cup {TypeError}
  ELSE /\ queue' = Append(queue, FilterRequest(items, index, sv, g, so,
                                               isSearch))
       /\ errors' = errors

\* Input with the listener not debounced: every input event evaluates
InputUndebounced(v) ==
  /\ UserEvent
  /\ pc = "ready"
  /\ Len(queue) < MaxInFlight
  /\ v # searchValue
  /\ searchValue' = v
  /\ CallFilter(content, fuse, v, genreValue, sortValue, TRUE)
  /\ snaps' = <<>>
  /\ UNCHANGED <<dbVars, pc, fetched, active, genreValue, genreOptions,
                 sortValue, debounceTimeoutId, grid, selectedBox, shown>>
  /\ UNCHANGED <<aside, blurring, tool>>

\* an input event on #search-input: debounceWithBlur re-arms the timer
Input(v) ==
  /\ UserEvent
  /\ pc = "ready"
  /\ v # searchValue
  /\ searchValue' = v
  /\ debounceTimeoutId' = TRUE
  /\ blurTimeoutId' = TRUE
  /\ focused' = TRUE
  /\ snaps' = <<>>
  /\ UNCHANGED <<dbVars, queue, pc, fetched, active, genreValue, genreOptions,
                 sortValue, grid, selectedBox, shown>>
  /\ UNCHANGED <<aside, errors, tool>>

\* the debounce timer fires: filterContent(content, fuse!, true)
DebounceFire ==
  /\ debounceTimeoutId
  /\ Len(queue) < MaxInFlight
  /\ debounceTimeoutId' = FALSE
  /\ CallFilter(content, fuse, searchValue, genreValue, sortValue, TRUE)
  /\ snaps' = <<>>
  /\ UNCHANGED <<dbVars, pc, fetched, active, controls, grid, selectedBox,
                 shown, events>>
  /\ UNCHANGED <<aside, blurring, tool>>

\* a change event on #genre-filter: filterContent(content, fuse!)
GenreChange(g) ==
  /\ UserEvent
  /\ pc = "ready"
  /\ Len(queue) < MaxInFlight
  /\ g # genreValue
  /\ genreValue' = g
  /\ CallFilter(content, fuse, searchValue, g, sortValue, FALSE)
  /\ snaps' = <<>>
  /\ UNCHANGED <<dbVars, pc, fetched, active, searchValue, genreOptions,
                 sortValue, debounceTimeoutId, grid, selectedBox, shown>>
  /\ UNCHANGED <<aside, blurring, tool>>

\* a change event on #sort-options: filterContent(content, fuse!)
SortChange(so) ==
  /\ UserEvent
  /\ pc = "ready"
  /\ Len(queue) < MaxInFlight
  /\ so # sortValue
  /\ sortValue' = so
  /\ CallFilter(content, fuse, searchValue, genreValue, so, FALSE)
  /\ snaps' = <<>>
  /\ UNCHANGED <<dbVars, pc, fetched, active, searchValue, genreValue,
                 genreOptions, debounceTimeoutId, grid, selectedBox, shown>>
  /\ UNCHANGED <<aside, blurring, tool>>

\* ContentTypeChange that starts the other catalog with an empty selection
ContentTypeChangeClearing(v) ==
  /\ UserEvent
  /\ pc = "ready"
  /\ Len(queue) < MaxInFlight
  /\ v # currentContentType
  /\ currentContentType' = v
  /\ content' = IF v = "movies" THEN movies ELSE tvShows
  /\ fuse' = IF v = "movies" THEN movieFuse ELSE tvShowFuse
  /\ genreOptions' = GenreOptions(content')
  /\ genreValue' = ""
  /\ dbSelected' = <<>>
  /\ CallFilter(content', fuse', searchValue, "", sortValue, FALSE)
  /\ snaps' = <<>>
  /\ UNCHANGED <<dbMovies, dbTvShows, nextId, pc, fetched, searchValue,
                 sortValue, debounceTimeoutId, grid, selectedBox, shown>>
  /\ UNCHANGED <<aside, blurring, tool>>

\* a change event on #content-type-toggle
ContentTypeChange(v) ==
  /\ UserEvent
  /\ pc = "ready"
  /\ Len(queue) < MaxInFlight
  /\ v # currentContentType
  /\ currentContentType' = v
  /\ content' = IF v = "movies" THEN movies ELSE tvShows
  /\ fuse' = IF v = "movies" THEN movieFuse ELSE tvShowFuse
  /\ genreOptions' = GenreOptions(content')
  /\ genreValue' = ""
  /\ CallFilter(content', fuse', searchValue, "", sortValue, FALSE)
  /\ snaps' = <<>>
  /\ UNCHANGED <<dbVars, pc, fetched, searchValue, sortValue,
                 debounceTimeoutId, grid, selectedBox, shown>>
  /\ UNCHANGED <<aside, blurring, tool>>

\* the blur timer fires, 3000 ms after the last input event and so after the
\* debounce timer armed by the same event: searchInput.blur()
BlurFire ==
  /\ blurTimeoutId
  /\ ~debounceTimeoutId
  /\ blurTimeoutId' = FALSE
  /\ focused' = FALSE
  /\ UNCHANGED <<dbVars, queue, pc, fetched, active, controls,
                 debounceTimeoutId, grid, selectedBox, shown, snaps, events>>
  /\ UNCHANGED <<aside, errors, tool>>

\* filterContent(content, fuse, isSearch) called as such, up to its await
FilterContent(isSearch) ==
  /\ pc = "ready"
  /\ Len(queue) < MaxInFlight
  /\ CallFilter(content, fuse, searchValue, genreValue, sortValue, isSearch)
  /\ UNCHANGED <<dbVars, pc, fetched, active, controls, debounceTimeoutId,
                 grid, selectedBox, shown, snaps, events>>
  /\ UNCHANGED <<aside, blurring, tool>>

\* filterContent after its await: displayContent(list, selected rows)
CompleteFilter ==
  /\ \E i \in 1..Len(queue) :
       /\ Served(i, "fRead")
       /\ LET h == queue[i]
          IN /\ grid' = Cards(h.items, dbSelected)
             /\ selectedBox' = Box(dbSelected)
             /\ shown' = [src |-> "filter", cat |-> h.cat, q |-> h.q,
                          genre |-> h.genre, sort |-> h.sort, live |-> h.live]
       /\ queue' = Detach(Without(queue, i))
  /\ UNCHANGED <<dbVars, pc, fetched, active, controls, debounceTimeoutId,
                 snaps, events>>
  /\ UNCHANGED <<aside, blurring, errors, tool>>

(***************************************************************************)
(* The selection: toggleContentSelection and reset.                        *)
(***************************************************************************)
\* a click on a card (none while its pointer events are off):
\* toggleContentSelection up to its first await
CardClick(i) ==
  /\ UserEvent
  /\ i \in 1..Len(grid)
  /\ ~grid[i].busy
  /\ Len(queue) < MaxInFlight
  /\ grid' = [grid EXCEPT ![i].busy = TRUE]
  /\ queue' = Append(queue, [k |-> "tRead", ref |-> grid[i].id,
                             title |-> grid[i].title, year |-> grid[i].year,
                             att |-> TRUE, mark |-> grid[i].selected])
  /\ snaps' = IF queue # <<>> THEN <<>>
              ELSE LET now == [ref |-> grid[i].id,
                               members |-> Members(dbSelected)]
                   IN IF snaps # <<>> /\ Last(snaps).ref = grid[i].id
                      THEN <<Last(snaps), now>>
                      ELSE <<now>>
  /\ UNCHANGED <<dbVars, pc, fetched, active, controls, debounceTimeoutId,
                 selectedBox, shown>>
  /\ UNCHANGED <<aside, blurring, errors, tool>>

\* the rows are back: isSelected decides, the card is marked, the write issued
CompleteToggleRead ==
  /\ \E i \in 1..Len(queue) :
       /\ Served(i, "tRead")
       /\ LET h == queue[i]
              isSelected == IsSelected(dbSelected, h.ref)
          IN /\ grid' = WithCard(grid, h, "selected", ~isSelected)
             /\ queue' = Append(Without(queue, i),
                                [h EXCEPT !.k = IF isSelected THEN "tDelete"
                                                ELSE "tAdd"])
  /\ UNCHANGED <<dbVars, pc, fetched, active, controls, debounceTimeoutId,
                 selectedBox, shown, snaps, events>>
  /\ UNCHANGED <<aside, blurring, errors, tool>>

\* NewRow as the first variant of the script wrote it: the title and no year
NewRowWithoutYear(h) ==
  [id |-> nextId, refId |-> h.ref, title |-> h.title, year |-> 0]

\* NewRow under the smallest key above the number of stored rows
NewRowReusingKey(h) ==
  [id |-> Len(dbSelected) + 1, refId |-> h.ref, title |-> h.title,
   year |-> h.year]

\* { refId: contentId, title: contentTitle, year: contentYear } under the
\* next key of the collection
NewRow(h) ==
  [id |-> nextId, refId |-> h.ref, title |-> h.title, year |-> h.year]

\* db.selected.add({ refId, title, year }), then db.selected.toArray() is issued
CompleteToggleAdd ==
  /\ queue # <<>> /\ Head(queue).k = "tAdd"
  /\ LET h == Head(queue)
     IN /\ dbSelected' = Append(dbSelected, NewRow(h))
        /\ nextId' = nextId + 1
        /\ queue' = Append(Tail(queue), [h EXCEPT !.k = "tList"])
  /\ UNCHANGED <<dbMovies, dbTvShows, pc, fetched, active, controls,
                 debounceTimeoutId, grid, selectedBox, shown, snaps, events>>
  /\ UNCHANGED <<aside, blurring, errors, tool>>

\* db.selected.where("refId").equals(contentId).delete(): every matching row
DeleteWhere(rows, contentId) ==
  LET Other(r) == r.refId # contentId IN SelectSeq(rows, Other)

CompleteToggleDelete ==
  /\ queue # <<>> /\ Head(queue).k = "tDelete"
  /\ LET h == Head(queue)
     IN /\ dbSelected' = DeleteWhere(dbSelected, h.ref)
        /\ queue' = Append(Tail(queue), [h EXCEPT !.k = "tList"])
  /\ UNCHANGED <<dbMovies, dbTvShows, nextId, pc, fetched, active, controls,
                 debounceTimeoutId, grid, selectedBox, shown, snaps, events>>
  /\ UNCHANGED <<aside, blurring, errors, tool>>

\* updateSelectedBox(await db.selected.toArray()); pointer events back on
CompleteToggleList ==
  /\ \E i \in 1..Len(queue) :
       /\ Served(i, "tList")
       /\ selectedBox' = Box(dbSelected)
       /\ grid' = WithCard(grid, queue[i], "busy", FALSE)
       /\ queue' = Without(queue, i)
  /\ UNCHANGED <<dbVars, pc, fetched, active, controls, debounceTimeoutId,
                 shown, snaps, events>>
  /\ UNCHANGED <<aside, blurring, errors, tool>>

\* a click on #reset-btn: reset(content) up to `await db.selected.clear()`
Reset ==
  /\ UserEvent
  /\ pc = "ready"
  /\ Len(queue) < MaxInFlight
  /\ grid' = [i \in 1..Len(grid) |-> [grid[i] EXCEPT !.selected = FALSE]]
  /\ searchValue' = ""
  /\ genreValue' = genreOptions[1]
  /\ sortValue' = "none"
  /\ queue' = Append(queue, [k |-> "clear", content |-> content,
                             before |-> <<searchValue, genreValue, sortValue>>])
  /\ snaps' = <<>>
  /\ UNCHANGED <<dbVars, pc, fetched, active, genreOptions, debounceTimeoutId,
                 selectedBox, shown>>
  /\ UNCHANGED <<aside, blurring, errors, tool>>

\* the collection is cleared: displayContent(content, [])
CompleteClear ==
  /\ queue # <<>> /\ Head(queue).k = "clear"
  /\ dbSelected' = <<>>
  /\ grid' = Cards(Head(queue).content, <<>>)
  /\ selectedBox' = <<>>
  /\ shown' = [NoRender EXCEPT !.src = "reset", !.cat = Head(queue).content]
  /\ queue' = Detach(Tail(queue))
  /\ UNCHANGED <<dbMovies, dbTvShows, nextId, pc, fetched, active, controls,
                 debounceTimeoutId, snaps, events>>
  /\ UNCHANGED <<aside, blurring, errors, tool>>

(***************************************************************************)
(* The selection box: toggleShowBookmarked and copyListText.               *)
(***************************************************************************)
\* a click on #bookmark-btn: selectedBox.classList.toggle("show")
ToggleShowBookmarked ==
  /\ UserEvent
  /\ pc = "ready"
  /\ show' = ~show
  /\ snaps' = <<>>
  /\ UNCHANGED <<dbVars, queue, pc, fetched, active, controls,
                 debounceTimeoutId, grid, selectedBox, shown, clipboard,
                 blurring, errors, tool>>

\* the textContent of one <li>: `${content.title} (${content.year})`
LiText(li) == <<li.title, " (", li.year, ")">>

\* a click on #copy-btn, which the box has while it lists a selection:
\* the <li> texts of the page, one line each, go to the clipboard
CopyListText ==
  /\ UserEvent
  /\ selectedBox # <<>>
  /\ clipboard' = [j \in 1..Len(selectedBox) |-> LiText(selectedBox[j])]
  /\ snaps' = <<>>
  /\ UNCHANGED <<dbVars, queue, pc, fetched, active, controls,
                 debounceTimeoutId, grid, selectedBox, shown, show, blurring,
                 errors, tool>>

Next ==
  \/ DOMContentLoaded
  \/ CompleteCount
  \/ CompletePutMovies
  \/ CompletePutTvShows
  \/ CompleteGetMovies
  \/ CompleteGetTvShows
  \/ CompleteGetSelected
  \/ \E v \in SearchValues : Input(v)
  \/ DebounceFire
  \/ BlurFire
  \/ \E g \in Range(genreOptions) : GenreChange(g)
  \/ \E so \in SortValues : SortChange(so)
  \/ \E v \in {"movies", "tvShows"} : ContentTypeChange(v)
  \/ CompleteFilter
  \/ \E i \in 1..Len(grid) : CardClick(i)
  \/ CompleteToggleRead
  \/ CompleteToggleAdd
  \/ CompleteToggleDelete
  \/ CompleteToggleList
  \/ Reset
  \/ CompleteClear
  \/ ToggleShowBookmarked
  \/ CopyListText

Spec == Init /\ [][Next]_vars

(***************************************************************************)
(* The search field and the controls under the guarantees of the event     *)
(* loop and of the store: the handler of the load event runs, a timer that *)
(* is armed fires, a call that the store can serve is answered.  The cards *)
(* and the selection box are left alone.                                   *)
(***************************************************************************)
Answer ==
  \/ DOMContentLoaded
  \/ CompleteCount
  \/ CompletePutMovies
  \/ CompletePutTvShows
  \/ CompleteGetMovies
  \/ CompleteGetTvShows
  \/ CompleteGetSelected
  \/ CompleteFilter
  \/ CompleteClear

NextLive ==
  \/ Answer
  \/ \E v \in SearchValues : Input(v)
  \/ DebounceFire
  \/ BlurFire
  \/ \E g \in Range(genreOptions) : GenreChange(g)
  \/ \E so \in SortValues : SortChange(so)
  \/ \E v \in {"movies", "tvShows"} : ContentTypeChange(v)
  \/ Reset

\* weak fairness of DebounceFire, with ENABLED <<DebounceFire>>_vars written
\* out as the guard of the action (the step always turns the timer off)
DebounceFairness ==
  \/ []<>(~(debounceTimeoutId /\ Len(queue) < MaxInFlight))
  \/ []<><<DebounceFire>>_vars

SpecLive ==
  Init /\ [][NextLive]_vars /\ DebounceFairness /\ WF_vars(BlurFire)
    /\ WF_vars(Answer)

(***************************************************************************)
(* The store may reject a call.  The awaiting handler resumes in its catch *)
(* block if it has one; if not, its promise is rejected and nobody handles *)
(* the rejection.                                                          *)
(***************************************************************************)
\* db.movies.count() rejects: initializeDatabase and the DOMContentLoaded
\* handler throw, no listener is registered
FailCount ==
  /\ queue # <<>> /\ Head(queue).k = "count"
  /\ queue' = Tail(queue)
  /\ pc' = "failed"
  /\ errors' = errors \cup {Uncaught("DOMContentLoaded")}
  /\ UNCHANGED <<dbVars, fetched, active, controls, debounceTimeoutId, grid,
                 selectedBox, shown, aside, tool, blurring, snaps, events>>

\* a bulkPut of seedDatabase rejects: its catch block logs, the second
\* bulkPut is skipped, the handler goes on with fetchContent
FailSeed ==
  /\ queue # <<>> /\ Head(queue).k \in {"putMovies", "putTvShows"}
  /\ queue' = Append(Tail(queue), [k |-> "getMovies"])
  /\ errors' = errors \cup {Caught("seedDatabase")}
  /\ UNCHANGED <<dbVars, pc, fetched, active, controls, debounceTimeoutId,
                 grid, selectedBox, shown, aside, tool, blurring, snaps, events>>

\* a toArray() of fetchContent rejects: its catch block logs and returns
\* empty lists and null indexes; nothing is rendered, the listeners are
\* registered
FailFetch ==
  /\ queue # <<>> /\ Head(queue).k \in {"getMovies", "getTvShows", "getSelected"}
  /\ queue' = Tail(queue)
  /\ movies' = <<>>
  /\ tvShows' = <<>>
  /\ movieFuse' = NullFuse
  /\ tvShowFuse' = NullFuse
  /\ currentContentType' = "movies"
  /\ content' = <<>>
  /\ fuse' = NullFuse
  /\ pc' = "ready"
  /\ errors' = errors \cup {Caught("fetchContent")}
  /\ UNCHANGED <<dbVars, controls, debounceTimeoutId, grid, selectedBox, shown,
                 aside, tool, blurring, snaps, events>>

\* a store call of toggleContentSelection rejects: the function has no try
\* block, what it did before the call stays (the pointer events off, and
\* past the first read the new mark of the card)
FailToggle ==
  /\ \E i \in 1..Len(queue) :
       /\ \E k \in ToggleKinds : Served(i, k)
       /\ queue' = Without(queue, i)
  /\ errors' = errors \cup {Uncaught("toggleContentSelection")}
  /\ UNCHANGED <<dbVars, pc, fetched, active, controls, debounceTimeoutId,
                 grid, selectedBox, shown, aside, tool, blurring, snaps, events>>

\* db.selected.clear() rejects: reset has no try block, the controls it has
\* cleared and the marks it has removed stay so, nothing is rendered
FailClear ==
  /\ queue # <<>> /\ Head(queue).k = "clear"
  /\ queue' = Tail(queue)
  /\ errors' = errors \cup {Uncaught("reset")}
  /\ UNCHANGED <<dbVars, pc, fetched, active, controls, debounceTimeoutId,
                 grid, selectedBox, shown, aside, tool, blurring, snaps, events>>

\* the toArray() of filterContent rejects: nothing is rendered
FailFilter ==
  /\ \E i \in 1..Len(queue) :
       /\ Served(i, "fRead")
       /\ queue' = Without(queue, i)
  /\ errors' = errors \cup {Uncaught("filterContent")}
  /\ UNCHANGED <<dbVars, pc, fetched, active, controls, debounceTimeoutId,
                 grid, selectedBox, shown, aside, tool, blurring, snaps, events>>

NextFail ==
  \/ Next
  \/ FailCount
  \/ FailSeed
  \/ FailFetch
  \/ FailToggle
  \/ FailClear
  \/ FailFilter

SpecFail == Init /\ [][NextFail]_vars

(***************************************************************************)
(* The pipeline on its own: filterContent applied to every catalog drawn   *)
(* from the universe and every value of the three controls, among them a   *)
(* genre that labels no item.                                              *)
(***************************************************************************)
Catalogs == {SortByTitle(toArray({Item(i) : i \in S})) : S \in SUBSET ItemIds}

InitEval ==
  /\ \E c \in Catalogs :
       /\ dbMovies = Range(c)
       /\ movies = c
       /\ movieFuse = initFuse(c)
       /\ content = c
       /\ fuse = initFuse(c)
       /\ genreOptions = GenreOptions(c)
       /\ genreValue \in Range(GenreOptions(c)) \cup {"Western"}
       /\ \E s \in {<<>>, <<Row(1, 2)>>} :
            /\ dbSelected = s
            /\ nextId = Len(s) + 1
            /\ grid = Cards(c, s)
            /\ selectedBox = Box(s)
       /\ shown = [NoRender EXCEPT !.src = "fetch", !.cat = c]
  /\ dbTvShows = {}
  /\ tvShows = <<>>
  /\ tvShowFuse = initFuse(<<>>)
  /\ currentContentType = "movies"
  /\ searchValue \in SearchValues
  /\ sortValue \in SortValues
  /\ debounceTimeoutId = FALSE
  /\ queue = <<>>
  /\ pc = "ready"
  /\ show = FALSE
  /\ clipboard = <<>>
  /\ blurTimeoutId = FALSE
  /\ focused = FALSE
  /\ errors = {}
  /\ snaps = <<>>
  /\ events = 0
  /\ ToolOff

NextEval ==
  \/ \E isSearch \in BOOLEAN : FilterContent(isSearch)
  \/ CompleteFilter

SpecEval == InitEval /\ [][NextEval]_vars

(***************************************************************************)
(* Startup on its own: the DOMContentLoaded handler on every store a page  *)
(* load may find: never used, left by the single-catalog variant (movies   *)
(* only) or seeded before, with the rows toggles have left in it.          *)
(***************************************************************************)
\* the lists of up to n Selection rows, the primary keys ascending from 1
RowLists(n) ==
  UNION {{[j \in 1..len |-> Row(j, f[j])] : f \in [1..len -> ItemIds]} :
         len \in 0..n}

InitStartup ==
  /\ \E t \in {{}, tvShowList}, s \in RowLists(MaxRows) :
       \/ /\ dbMovies = movieList
          /\ dbTvShows = t
          /\ dbSelected = s
       \/ /\ dbMovies = {}
          /\ dbTvShows = {}
          /\ dbSelected = <<>>
  /\ nextId = Len(dbSelected) + 1
  /\ Loading
  /\ ToolOff

NextStartup ==
  \/ DOMContentLoaded
  \/ CompleteCount
  \/ CompletePutMovies
  \/ CompletePutTvShows
  \/ CompleteGetMovies
  \/ CompleteGetTvShows
  \/ CompleteGetSelected

SpecStartup == InitStartup /\ [][NextStartup]_vars

(***************************************************************************)
(* The selection on its own: a page loaded on every store of SpecStartup,  *)
(* then clicks on the cards and on the reset button.                       *)
(***************************************************************************)
NextSelection ==
  \/ NextStartup
  \/ \E i \in 1..Len(grid) : CardClick(i)
  \/ CompleteToggleRead
  \/ CompleteToggleAdd
  \/ CompleteToggleDelete
  \/ CompleteToggleList
  \/ Reset
  \/ CompleteClear

SpecSelection == InitStartup /\ [][NextSelection]_vars

(***************************************************************************)
(* The ingestion utility: processNfoFiles and downloadImage, the same in   *)
(* the movies script and in gen-tv.ts but for the names of the paths.  The *)
(* .nfo files are well formed; the image host answers as it likes.         *)
(***************************************************************************)
\* .nfo files in the directory of one run
MaxFiles == 2

\* the metadata of the .nfo files a directory may hold
NfoIds == 1..3

NfoTitle == <<"Dune", "Alien: Covenant", "Face/Off">>

NfoYear == <<2021, 2017, 1997>>

\* sanitizeTitle: '/' and ':' become '-', what is left of the punctuation
\* is dropped
sanitizeTitle(title) ==
  CASE title = "Alien: Covenant" -> "Alien- Covenant"
    [] title = "Face/Off" -> "Face-Off"
    [] OTHER -> title

\* `${safeTitle} (${year}).jpg`
ImageName(n) == <<sanitizeTitle(NfoTitle[n]), " (", NfoYear[n], ").jpg">>

\* movieData: the entry of file n (the fields that tell entries apart)
Entry(n) ==
  [id |-> n, title |-> NfoTitle[n], year |-> NfoYear[n],
   image |-> <<"/images/movies/">> \o ImageName(n)]

\* a content-type header as the type, the subtype and the parameters sent;
\* no header (headers.get returns null) is the empty sequence
ContentTypes ==
  {<<>>, <<"image/", "jpeg">>, <<"image/", "jpeg", ";charset=binary">>,
   <<"image/", "png">>, <<"image/", "webp">>, <<"text/", "html">>}

\* String.prototype.startsWith
startsWith(s, prefix) ==
  Len(prefix) <= Len(s) /\ SubSeq(s, 1, Len(prefix)) = prefix

\* what fetch(url) may give: a rejection, or a response with a content type
\* whose body can be read or not
Responses ==
  {NoResponse}
    \cup [fetched : {TRUE}, contentType : ContentTypes, body : BOOLEAN]

\* Accepted on the type alone, whatever the subtype: every image/* passes
AcceptedAnyImage(contentType) ==
  contentType # <<>> /\ startsWith(contentType, <<"image/">>)

\* the condition under which downloadImage does not throw:
\* !(!contentType || !contentType.startsWith("image/jpeg"))
Accepted(contentType) ==
  contentType # <<>> /\ startsWith(contentType, <<"image/", "jpeg">>)

\* downloadImage reaches fs.writeFileSync(outputPath, buffer)
Saves(r) == r.fetched /\ Accepted(r.contentType) /\ r.body

\* error.message in the catch block of downloadImage
ErrorMessage(r) ==
  IF ~r.fetched THEN <<"fetch failed">>
  ELSE IF ~Accepted(r.contentType)
       THEN <<"Content is not an image. Content-Type: ">> \o r.contentType
       ELSE <<"terminated">>

\* logFailedDownload: `${title} (${year}) - ${errorMessage})\n`
LogLine(n, r) ==
  <<sanitizeTitle(NfoTitle[n]), " (", NfoYear[n], ") - ">> \o ErrorMessage(r)
    \o <<")">>

\* downloadImage up to `await fetch(url)`: the host answers, or the fetch
\* is rejected
FetchImage ==
  /\ toolPc = "fetch"
  /\ response' \in Responses
  /\ toolPc' = "check"
  /\ UNCHANGED <<nfoFiles, nfoAt, entries, images, failedDownloads, outputJson>>
  /\ UNCHANGED page

\* the rest of downloadImage: the content-type check, the body, the file;
\* any error goes to the catch block, which logs it
CheckAndSave ==
  /\ toolPc = "check"
  /\ IF Saves(response)
     THEN /\ images' = Append(images, ImageName(nfoFiles[nfoAt]))
          /\ failedDownloads' = failedDownloads
     ELSE /\ images' = images
          /\ failedDownloads' =
               Append(failedDownloads, LogLine(nfoFiles[nfoAt], response))
  /\ toolPc' = "push"
  /\ UNCHANGED <<nfoFiles, nfoAt, response, entries, outputJson>>
  /\ UNCHANGED page

\* PushEntry of a loop that skips the file whose image it could not save
PushEntrySkippingFailed ==
  /\ toolPc = "push"
  /\ entries' = IF Saves(response) THEN Append(entries, Entry(nfoFiles[nfoAt]))
                ELSE entries
  /\ nfoAt' = nfoAt + 1
  /\ toolPc' = IF nfoAt < Len(nfoFiles) THEN "fetch" ELSE "write"
  /\ UNCHANGED <<nfoFiles, response, images, failedDownloads, outputJson>>
  /\ UNCHANGED page

\* after downloadImage and sleep(50): movies.push(movieData), next file
PushEntry ==
  /\ toolPc = "push"
  /\ entries' = Append(entries, Entry(nfoFiles[nfoAt]))
  /\ nfoAt' = nfoAt + 1
  /\ toolPc' = IF nfoAt < Len(nfoFiles) THEN "fetch" ELSE "write"
  /\ UNCHANGED <<nfoFiles, response, images, failedDownloads, outputJson>>
  /\ UNCHANGED page

\* fs.writeFileSync(outputJsonPath, JSON.stringify(movies, null, 2))
WriteCatalog ==
  /\ toolPc = "write"
  /\ outputJson' = entries
  /\ toolPc' = "done"
  /\ UNCHANGED <<nfoFiles, nfoAt, response, entries, images, failedDownloads>>
  /\ UNCHANGED page

\* the directory listings of up to n files
FileLists(n) == UNION {[1..len -> NfoIds] : len \in 0..n}

\* processNfoFiles has read the directory; the page is not loaded
InitIngest ==
  /\ nfoFiles \in FileLists(MaxFiles)
  /\ nfoAt = 1
  /\ toolPc = IF nfoFiles = <<>> THEN "write" ELSE "fetch"
  /\ response = NoResponse
  /\ entries = <<>>
  /\ images = <<>>
  /\ failedDownloads = <<>>
  /\ outputJson = <<>>
  /\ dbMovies = {}
  /\ dbTvShows = {}
  /\ dbSelected = <<>>
  /\ nextId = 1
  /\ Loading

NextIngest ==
  \/ FetchImage
  \/ CheckAndSave
  \/ PushEntry
  \/ WriteCatalog

\* the script runs to its end: nothing but its own awaits holds it up
SpecIngest == InitIngest /\ [][NextIngest]_vars /\ WF_vars(NextIngest)

(***************************************************************************)
(* Properties.                                                             *)
(***************************************************************************)
RowsOf(refId) == {j \in 1..Len(dbSelected) : dbSelected[j].refId = refId}

\* C1: in every reachable state there is at most one Selection row for each
\* refId, whatever the interleaving of toggles, re-renders and resets.
C1_AtMostOneRowPerRefId ==
  \A r \in ItemIds : Cardinality(RowsOf(r)) <= 1

\* C2: two consecutive completed toggles of one refId, with nothing in
\* between, leave the membership of that refId and of every other refId as
\* it was before the first of them.
C2_TwoTogglesRestoreMembership ==
  (queue = <<>> /\ Len(snaps) = 2)
    => Members(dbSelected) = snaps[1].members

\* the second of two isolated toggles of a stored refId has completed
C2_Witness ==
  /\ queue = <<>>
  /\ Len(snaps) = 2
  /\ snaps[1].ref \in snaps[1].members
  /\ snaps[2].ref \notin snaps[2].members

\* C3: a toggle that found its refId in the store removes exactly one row,
\* and a toggle that found it absent inserts exactly one row.
C3_ToggleChangesOneRow ==
  [][/\ CompleteToggleDelete => Len(dbSelected') = Len(dbSelected) - 1
     /\ CompleteToggleAdd => Len(dbSelected') = Len(dbSelected) + 1]_vars

\* C4: once a reset has completed, the selection store is empty and the grid
\* shows the full active catalog with no card marked selected.
C4_ResetShowsActiveCatalog ==
  [][CompleteClear => /\ dbSelected' = <<>>
                      /\ grid' = Cards(content', <<>>)]_vars

GridIds == [i \in 1..Len(grid) |-> grid[i].id]

HasGenreLabel(i, g) == \E j \in 1..Len(ItemGenre[i]) : ItemGenre[i][j] = g

\* the ids an evaluation has to show: the items of the catalog that the
\* query matches and that carry the genre
Expected(cat, q, g) ==
  {i \in Ids(cat) : /\ q = "" \/ Score(i, q) <= Threshold
                    /\ g = "" \/ HasGenreLabel(i, g)}

\* the grid is ordered by the sort key
KeyOrdered(sortOption) ==
  \A i \in 1..(Len(grid) - 1) :
    CASE sortOption = "year" -> ItemYear[grid[i].id] >= ItemYear[grid[i + 1].id]
      [] sortOption = "rating" ->
           ItemRating[grid[i].id] >= ItemRating[grid[i + 1].id]
      [] sortOption = "title" ->
           TitleRank(grid[i].title) <= TitleRank(grid[i + 1].title)
      [] OTHER -> TRUE

\* C5: the ids shown by an evaluation with a genre are among the ids the same
\* evaluation shows without a genre, and every shown item carries the genre.
C5_GenreFilterIsSubset ==
  (shown.src = "filter" /\ shown.genre # "")
    => /\ Range(GridIds) \subseteq
            Ids(Evaluate(shown.cat, initFuse(shown.cat), shown.q, "",
                         shown.sort, shown.live))
       /\ \A i \in 1..Len(grid) : HasGenreLabel(grid[i].id, shown.genre)

\* a genre filter that kept some results and dropped others
C5_Witness ==
  /\ shown.src = "filter"
  /\ shown.genre # ""
  /\ grid # <<>>
  /\ Len(grid) < Len(Evaluate(shown.cat, initFuse(shown.cat), shown.q, "",
                              shown.sort, shown.live))

\* C6: an evaluation that live text input did not trigger shows the filtered
\* results, each once, by descending year, by descending rating or by
\* non-decreasing title, as the sort key says.
C6_SortedByKey ==
  (shown.src = "filter" /\ ~shown.live)
    => /\ KeyOrdered(shown.sort)
       /\ Range(GridIds) = Expected(shown.cat, shown.q, shown.genre)
       /\ Len(grid) = Cardinality(Expected(shown.cat, shown.q, shown.genre))

\* three or more results by year, not in the order of the catalog
C6_Witness ==
  /\ shown.src = "filter"
  /\ ~shown.live
  /\ shown.sort = "year"
  /\ Len(grid) >= 3
  /\ \E i \in 1..(Len(grid) - 1) :
       TitleRank(grid[i].title) > TitleRank(grid[i + 1].title)
  /\ \E i \in 1..(Len(grid) - 1) :
       ItemYear[grid[i].id] = ItemYear[grid[i + 1].id]

\* C7: an evaluation triggered by live text input shows its results by
\* ascending match score whatever the sort control says (in catalog order
\* when the text is empty and no result has a score).
C7_LiveInputByScore ==
  (shown.src = "filter" /\ shown.live)
    => /\ \A i \in 1..(Len(grid) - 1) :
            shown.q # "" =>
              Score(grid[i].id, shown.q) <= Score(grid[i + 1].id, shown.q)
       /\ shown.q = "" =>
            \A i \in 1..(Len(grid) - 1) :
              TitleRank(grid[i].title) <= TitleRank(grid[i + 1].title)

\* a live evaluation under sort key year whose order is not by year
C7_Witness ==
  /\ shown.src = "filter"
  /\ shown.live
  /\ shown.q # ""
  /\ shown.sort = "year"
  /\ Len(grid) >= 2
  /\ ItemYear[grid[1].id] < ItemYear[grid[2].id]
  /\ Score(grid[1].id, shown.q) < Score(grid[2].id, shown.q)

\* C8: an evaluation triggered by a genre change, a sort change or a
\* content-type switch orders by the sort key, also with a query in the
\* search field; with no sort key it keeps the order the search returned.
C8_ControlTriggersBySortKey ==
  (shown.src = "filter" /\ ~shown.live /\ shown.q # "")
    => /\ KeyOrdered(shown.sort)
       /\ shown.sort = "none" =>
            LET Kept(r) == shown.genre = "" \/ HasGenreLabel(r.item.id, shown.genre)
            IN GridIds = IdSeq(MapItems(SelectSeq(
                                 FuseSearch(initFuse(shown.cat), shown.q), Kept)))

\* a query in the field, and the results by year against their scores
C8_Witness ==
  /\ shown.src = "filter"
  /\ ~shown.live
  /\ shown.q # ""
  /\ shown.sort = "year"
  /\ Len(grid) >= 2
  /\ Score(grid[1].id, shown.q) > Score(grid[2].id, shown.q)

\* the collection a catalog list was read from
TableOf(cat) == IF cat = movies THEN dbMovies ELSE dbTvShows

\* C9: an evaluation with empty query, empty genre, no sort key and no live
\* input shows exactly the stored catalog by ascending title, each item once,
\* whatever was evaluated before.
C9_EmptyQueryPassthrough ==
  (/\ shown.src = "filter" /\ ~shown.live
   /\ shown.q = "" /\ shown.genre = "" /\ shown.sort = "none")
    => /\ Range(GridIds) = {r.id : r \in TableOf(shown.cat)}
       /\ Len(grid) = Cardinality(TableOf(shown.cat))
       /\ \A i \in 1..(Len(grid) - 1) :
            TitleRank(grid[i].title) <= TitleRank(grid[i + 1].title)

\* the full catalog is back after evaluations under other control values
C9_Witness ==
  /\ shown.src = "filter" /\ ~shown.live
  /\ shown.q = "" /\ shown.genre = "" /\ shown.sort = "none"
  /\ events >= 2
  /\ Len(grid) = 3
  /\ queue = <<>>

\* a genre value that labels no item of the catalog
UnknownGenre(g, cat) ==
  g # "" /\ \A i \in 1..Len(cat) : g \notin Range(cat[i].genre)

\* C10: an evaluation whose genre labels no item shows an empty list and
\* completes: its request is served, the selection store is as before.
C10_UnknownGenreShowsNothing ==
  [][(CompleteFilter /\ UnknownGenre(shown'.genre, shown'.cat))
       => /\ grid' = <<>>
          /\ dbSelected' = dbSelected
          /\ Len(queue') = Len(queue) - 1]_vars

\* an evaluation of a non-empty catalog under an unknown genre has been shown
C10_Witness ==
  /\ shown.src = "filter"
  /\ UnknownGenre(shown.genre, shown.cat)
  /\ shown.cat # <<>>
  /\ dbSelected # <<>>
  /\ grid = <<>>

\* C11: when a store call of a toggle or of a reset is rejected, the
\* operation is a no-op: the rejection is handled, the step leaves the
\* selection store alone, the card that was clicked carries the mark it had
\* at the click, and the three controls hold what they held before the reset.
C11_RejectedCallIsNoOp ==
  [][/\ FailToggle =>
          /\ Uncaught("toggleContentSelection") \notin errors'
          /\ dbSelected' = dbSelected
          /\ \A i \in 1..Len(queue) :
               (queue[i].k \in ToggleKinds /\ queue' = Without(queue, i))
                 => \A c \in 1..Len(grid') :
                      (queue[i].att /\ grid'[c].id = queue[i].ref)
                        => grid'[c].selected = queue[i].mark
     /\ FailClear =>
          /\ Uncaught("reset") \notin errors'
          /\ dbSelected' = dbSelected
          /\ <<searchValue', genreValue', sortValue'>> = Head(queue).before]_vars

\* C12: once fetchContent has failed at startup the active catalog is empty
\* and the active index is null, and no handler dereferences the null index.
C12_NullIndexNeverDereferenced ==
  (Caught("fetchContent") \in errors)
    => /\ content = <<>>
       /\ fuse = NullFuse
       /\ TypeError \notin errors

\* C13: when startup is over, every catalog collection the page load found
\* empty holds its bundled dataset, whatever the other collection held.
C13_EveryEmptyCollectionSeeded ==
  (pc = "ready")
    => /\ movieList \subseteq dbMovies
       /\ tvShowList \subseteq dbTvShows

\* a step that changes one of the three collections
Writes == <<dbMovies', dbTvShows', dbSelected'>> # <<dbMovies, dbTvShows, dbSelected>>

\* C14: the selection collection changes only in the add and delete of a
\* toggle and in the clear of a reset, the catalog collections change only
\* in the two bulkPut of seeding, which starts only on an empty movies
\* collection; an evaluation, a content-type switch, a show-bookmarked click,
\* a copy and the two timers are not steps that change a collection.
C14_OnlyToggleResetAndSeedingWrite ==
  [][/\ (dbSelected' # dbSelected)
          => (CompleteToggleAdd \/ CompleteToggleDelete \/ CompleteClear)
     /\ (<<dbMovies', dbTvShows'>> # <<dbMovies, dbTvShows>>)
          => (CompletePutMovies \/ CompletePutTvShows)
     /\ (dbMovies' # dbMovies) => dbMovies = {}
     /\ Writes
          => ~(\/ CompleteFilter
              \/ \E v \in {"movies", "tvShows"} : ContentTypeChange(v)
              \/ ToggleShowBookmarked
              \/ CopyListText
              \/ DebounceFire
              \/ BlurFire)]_vars

\* a page loaded on a seeded store, after a toggle has stored a row: the row
\* is there after a copy and a content-type switch whose list is rendered
C14_Witness ==
  /\ dbSelected # <<>>
  /\ clipboard # <<>>
  /\ currentContentType = "tvShows"
  /\ shown.src = "filter"
  /\ shown.cat = tvShows
  /\ queue = <<>>

\* the evaluations of live text input that await the selection rows
LiveRequests == {i \in 1..Len(queue) : queue[i].k = "fRead" /\ queue[i].live}

\* C15: an input event evaluates nothing and leaves the one debounce timer
\* armed, so that a burst of them has one timer; a live evaluation starts
\* only when the timer fires, the timer is then off, and the evaluation is of
\* the control values of that moment; an armed timer always fires.
C15_BurstEvaluatesOnce ==
  /\ [][/\ (\E v \in SearchValues : Input(v))
            => (debounceTimeoutId' /\ queue' = queue /\ shown' = shown)
        /\ (Cardinality(LiveRequests') > Cardinality(LiveRequests))
            => DebounceFire
        /\ DebounceFire
            => /\ ~debounceTimeoutId'
               /\ Cardinality(LiveRequests') = Cardinality(LiveRequests) + 1
               /\ LET r == queue'[Len(queue')]
                  IN /\ r.k = "fRead" /\ r.live
                     /\ r.q = toLowerCase(searchValue)
                     /\ r.genre = genreValue
                     /\ r.sort = sortValue
                     /\ r.cat = content]_vars
  /\ debounceTimeoutId ~> (~debounceTimeoutId /\ LiveRequests # {})

\* two input events, then the one evaluation, of the text typed last
C15_Witness ==
  /\ events = 2
  /\ searchValue = "Du"
  /\ ~debounceTimeoutId
  /\ queue = <<>>
  /\ shown.src = "filter" /\ shown.live /\ shown.q = "du"
  /\ genreValue = "" /\ sortValue = "none"
  /\ ~show /\ clipboard = <<>>
  /\ dbSelected = <<>> /\ nextId = 1

\* the pending calls that end in a render of the grid: evaluations and resets
RenderKinds == {"fRead", "clear"}

\* C16: the evaluations render in the order they were triggered: when one
\* renders, no evaluation and no reset triggered before it is still pending.
C16_RendersInTriggerOrder ==
  [][CompleteFilter
       => \E i \in 1..Len(queue) :
            /\ Served(i, "fRead")
            /\ queue' = Detach(Without(queue, i))
            /\ grid' = Cards(queue[i].items, dbSelected)
            /\ \A j \in 1..(i - 1) : queue[j].k \notin RenderKinds]_vars

\* C17: an evaluation runs from its read of the controls to its render with
\* no other handler in between: while an evaluation is pending the only step
\* of the page is its render, so that no two are pending together.
C17_EvaluationIsAtomic ==
  [][(\E i \in 1..Len(queue) : queue[i].k = "fRead") => CompleteFilter]_vars

\* C18: the startup on a populated store leaves the selection rows as they
\* are; its render shows the movie catalog, marks the cards whose id is the
\* refId of a stored row and no other, and lists every stored row, in order.
C18_ReloadKeepsAndShowsSelection ==
  [][/\ (pc # "ready" /\ dbMovies # {}) => dbSelected' = dbSelected
     /\ (CompleteGetSelected /\ dbMovies # {})
          => /\ IdSeq(grid') = IdSeq(SortByTitle(toArray(dbMovies)))
             /\ \A c \in 1..Len(grid') :
                  grid'[c].selected <=> (grid'[c].id \in Members(dbSelected'))
             /\ Len(selectedBox') = Len(dbSelected')
             /\ \A j \in 1..Len(dbSelected') :
                  /\ selectedBox'[j].title = dbSelected'[j].title
                  /\ selectedBox'[j].year = dbSelected'[j].year]_vars

\* a reload has rendered a store with a selected movie and a selected show
C18_Witness ==
  /\ pc = "ready"
  /\ Len(dbSelected) = 2
  /\ dbSelected[1].refId = 2
  /\ dbSelected[2].refId = 4
  /\ Len(selectedBox) = 2
  /\ \E c \in 1..Len(grid) : grid[c].selected
  /\ \E c \in 1..Len(grid) : ~grid[c].selected

\* the genre labels that occur in a catalog
GenresOf(cat) == UNION {Range(cat[i].genre) : i \in 1..Len(cat)}

\* the options are the 'all genres' entry, then the genres of the active
\* catalog and no other, strictly ascending
OptionsFit ==
  /\ genreOptions[1] = ""
  /\ {genreOptions[k] : k \in 2..Len(genreOptions)} = GenresOf(content)
  /\ \A k \in 2..(Len(genreOptions) - 1) :
       GenreRank(genreOptions[k]) < GenreRank(genreOptions[k + 1])

\* C19: from the first render on and after every content-type switch the
\* genre options are those of the active catalog, and the evaluation a switch
\* starts is over the catalog it has made active, with no genre chosen.
C19_GenreOptionsOfActiveCatalog ==
  [][/\ (pc' = "ready") => OptionsFit'
     /\ \A v \in {"movies", "tvShows"} :
          ContentTypeChange(v)
            => LET r == queue'[Len(queue')]
               IN /\ content' = IF v = "movies" THEN movies ELSE tvShows
                  /\ r.k = "fRead"
                  /\ r.cat = content'
                  /\ Ids(r.items) \subseteq Ids(content')
                  /\ r.genre = "" /\ genreValue' = ""]_vars

\* the shows are active and rendered after three events, and the options
\* have the genre only shows carry and not the one only movies carry
C19_Witness ==
  /\ events = 3
  /\ currentContentType = "tvShows"
  /\ content # <<>>
  /\ shown.src = "filter"
  /\ shown.cat = tvShows
  /\ queue = <<>>
  /\ "Mystery" \in Range(genreOptions)
  /\ "Horror" \notin Range(genreOptions)
  /\ sortValue = "none" /\ searchValue = "" /\ ~show /\ clipboard = <<>>
  /\ dbSelected = <<>>

\* C20: the row an add inserts has a fresh key and the refId, title and
\* year of the item whose card was clicked, as the click captured them; a
\* row that stays in the store from one step to the next stays as it is.
C20_RowsAreSnapshots ==
  [][/\ CompleteToggleAdd
          => LET r == dbSelected'[Len(dbSelected')]
                 h == Head(queue)
             IN /\ Len(dbSelected') = Len(dbSelected) + 1
                /\ \A j \in 1..Len(dbSelected) : dbSelected[j].id # r.id
                /\ r.refId = h.ref
                /\ r.title = h.title /\ r.title = ItemTitle[h.ref]
                /\ r.year = h.year /\ r.year = ItemYear[h.ref]
     /\ \A j \in 1..Len(dbSelected), k \in 1..Len(dbSelected') :
          (dbSelected[j].id = dbSelected'[k].id)
            => dbSelected[j] = dbSelected'[k]]_vars

\* a row a toggle has added, a second one after it, and a later evaluation
C20_Witness ==
  /\ Len(dbSelected) = 2
  /\ dbSelected[1].id = 1
  /\ dbSelected[2].id = 2
  /\ dbSelected[2].refId # dbSelected[1].refId
  /\ shown.src = "filter"
  /\ queue = <<>>

\* the primary keys of the list, in the order of the list
Keys(rows) == [j \in 1..Len(rows) |-> rows[j].id]

\* strictly ascending
Ascending(ks) == \A j \in 1..(Len(ks) - 1) : ks[j] < ks[j + 1]

\* C21: the selection list is in insertion order: the keys ascend along the
\* list and lie below the key generator, which never goes back, not even
\* over a reset; an add puts its row last, under a key no row ever had, and
\* a delete or a reset leaves the rows that stay in the order they had.
C21_ListInInsertionOrder ==
  /\ [](/\ Ascending(Keys(dbSelected))
        /\ \A j \in 1..Len(dbSelected) : dbSelected[j].id < nextId)
  /\ [][/\ nextId' >= nextId
        /\ CompleteToggleAdd
             => /\ Front(dbSelected') = dbSelected
                /\ Last(dbSelected').id >= nextId
                /\ Last(dbSelected').refId = Head(queue).ref
        /\ (dbSelected' # dbSelected /\ ~CompleteToggleAdd)
             => \E kept \in SUBSET (1..Len(dbSelected)) :
                  dbSelected' = SelectSeq(dbSelected,
                                          LAMBDA r : r.id \in {dbSelected[j].id : j \in kept})]_vars

\* an item stored first on the reload, deselected and selected again: it is
\* now last, after the item that was second, under a key above both old keys
C21_Witness ==
  /\ queue = <<>>
  /\ Len(snaps) = 2
  /\ snaps[1].ref \in snaps[1].members
  /\ Len(dbSelected) = 2
  /\ dbSelected[1].id = 2
  /\ dbSelected[2].id = 3
  /\ dbSelected[2].refId = snaps[2].ref
  /\ dbSelected[1].refId # snaps[2].ref

\* C22: a copy puts on the clipboard one line '<title> (<year>)' for every
\* Selection row of the store, in the order of the rows, and nothing else.
C22_CopyIsTheStoredList ==
  [][CopyListText
       => clipboard' = [j \in 1..Len(dbSelected) |-> LiText(dbSelected[j])]]_vars

\* C23: with no store call pending, a card of the grid carries the mark
\* 'selected' if and only if the store holds a row whose refId is its id.
C23_MarkIffStored ==
  (queue = <<>>)
    => \A c \in 1..Len(grid) :
         grid[c].selected <=> (grid[c].id \in Members(dbSelected))

\* the results of filterContent before sortResults: the search results, or
\* the catalog list when the query is empty, after the genre filter
PreSort(cat, q, g) ==
  LET found == IF q # "" THEN FuseSearch(initFuse(cat), q) ELSE WrapItems(cat)
      Kept(r) == g = "" \/ HasGenreLabel(r.item.id, g)
  IN SelectSeq(found, Kept)

\* the place of an item in a list of results
PlaceIn(results, id) == CHOOSE p \in 1..Len(results) : results[p].item.id = id

\* the two items are equal under the comparator of the sort option
SameKey(sortOption, q, a, b) ==
  CASE sortOption = "search" -> q = "" \/ Score(a, q) = Score(b, q)
    [] sortOption = "title" -> TitleRank(ItemTitle[a]) = TitleRank(ItemTitle[b])
    [] sortOption = "year" -> ItemYear[a] = ItemYear[b]
    [] sortOption = "rating" -> ItemRating[a] = ItemRating[b]
    [] OTHER -> TRUE

\* C24: sorting is stable: two shown items that are equal under the
\* comparator (the score for live input, else the sort key) are in the
\* order they had in the list before sorting: the search results, or the
\* catalog list when the query is empty.
C24_SortIsStable ==
  (shown.src = "filter")
    => LET pre == PreSort(shown.cat, shown.q, shown.genre)
           option == IF shown.live THEN "search" ELSE shown.sort
       IN /\ Len(grid) = Len(pre)
          /\ \A i, j \in 1..Len(grid) :
               (i < j /\ SameKey(option, shown.q, grid[i].id, grid[j].id))
                 => PlaceIn(pre, grid[i].id) < PlaceIn(pre, grid[j].id)

\* three items sorted by year: the two of the same year, which had the newer
\* one between them in the catalog list, follow it in the order they had
C24_Witness ==
  /\ shown.src = "filter"
  /\ ~shown.live
  /\ shown.sort = "year"
  /\ Len(grid) = 3
  /\ ItemYear[grid[2].id] = ItemYear[grid[3].id]
  /\ PlaceIn(PreSort(shown.cat, shown.q, shown.genre), grid[1].id) = 2

\* C25: an evaluation renders the list that its catalog, query, genre, sort
\* key and trigger kind determine, whatever was evaluated before; its catalog
\* is one of the two lists read at load time, still as they were read, and
\* no step of the loaded page changes these lists.
C25_EvaluationIndependentOfHistory ==
  /\ []((shown.src = "filter")
          => /\ shown.cat \in {movies, tvShows}
             /\ shown.cat = SortByTitle(toArray(TableOf(shown.cat)))
             /\ GridIds =
                  IdSeq(Evaluate(shown.cat, initFuse(shown.cat), shown.q,
                                 shown.genre, shown.sort, shown.live)))
  /\ [][(pc = "ready") => (<<movies', tvShows'>> = <<movies, tvShows>>
                           /\ content' \in {movies, tvShows})]_vars

\* the three movies by year, rendered after two other changes of the
\* controls that have been taken back
C25_Witness ==
  /\ events = 3
  /\ queue = <<>>
  /\ currentContentType = "movies"
  /\ searchValue = "" /\ genreValue = "" /\ sortValue = "year"
  /\ shown.src = "filter" /\ ~shown.live /\ shown.sort = "year"
  /\ shown.q = "" /\ shown.genre = ""
  /\ Len(grid) = 3
  /\ ~show /\ clipboard = <<>> /\ dbSelected = <<>>

\* C26: on the loaded page the active catalog and the active index are of
\* one content type (the index is the one built from the active list), and
\* with no evaluation pending and no timer armed the grid shows items of the
\* active catalog only, each at most once.
C26_RenderedFromActiveCatalog ==
  (pc = "ready")
    => /\ \/ content = movies /\ fuse = movieFuse
          \/ content = tvShows /\ fuse = tvShowFuse
       /\ fuse.docs = content
       /\ (queue = <<>> /\ ~debounceTimeoutId)
            => /\ Range(GridIds) \subseteq Ids(content)
               /\ Cardinality(Range(GridIds)) = Len(grid)

\* the store calls of initializeDatabase that are pending
GatePending ==
  \E i \in 1..Len(queue) : queue[i].k \in {"count", "putMovies", "putTvShows"}

\* the pipeline evaluations that are pending
Evaluating(q) == \E i \in 1..Len(q) : q[i].k = "fRead"

\* C27: startup is ordered: a read of fetchContent is answered only when the
\* seeding gate is through and the movies are stored; the first render is
\* the one of fetchContent, of the list read, with both indexes built from
\* the lists read; a user event is handled and an evaluation is pending only
\* on the loaded page, whose active index is built.
C27_StartupIsOrdered ==
  [][/\ (CompleteGetMovies \/ CompleteGetTvShows \/ CompleteGetSelected)
          => (~GatePending /\ dbMovies # {} /\ shown.src = "none")
     /\ (shown.src = "none" /\ shown'.src # "none")
          => /\ shown'.src = "fetch"
             /\ movies' = SortByTitle(toArray(dbMovies))
             /\ tvShows' = SortByTitle(toArray(dbTvShows))
             /\ movieFuse' = initFuse(movies') /\ tvShowFuse' = initFuse(tvShows')
             /\ IdSeq(grid') = IdSeq(movies')
     /\ (events' # events \/ Evaluating(queue') \/ debounceTimeoutId')
          => (pc = "ready" /\ shown.src # "none" /\ fuse.built
              /\ fuse.docs = content)]_vars

\* the startup is over and the first user event, a query typed in the search
\* field, has been evaluated over the index of the movies and rendered
C27_Witness ==
  /\ pc = "ready"
  /\ events = 1
  /\ queue = <<>>
  /\ shown.src = "filter" /\ shown.live /\ shown.q = "a"
  /\ fuse.built /\ fuse.docs = movies
  /\ Len(grid) = 2
  /\ dbSelected = <<>>

\* C28: a bulkPut of the seeding that is rejected is caught and logged, the
\* startup goes on (to the reads of fetchContent, at once or after the other
\* bulkPut), the rows written before stay, and after a rejected bulkPut of
\* the movies the bulkPut of the tvShows is still issued.
C28_SeedingFailureIsContained ==
  [][FailSeed
       => /\ Caught("seedDatabase") \in errors'
          /\ pc' = "init"
          /\ queue' # <<>>
          /\ Head(queue').k \in {"putTvShows", "getMovies"}
          /\ dbMovies \subseteq dbMovies' /\ dbTvShows \subseteq dbTvShows'
          /\ (Head(queue).k = "putMovies") => (Head(queue').k = "putTvShows")]_vars

\* the entries of the first n files of the directory, in the order of the loop
EntriesOf(n) == [i \in 1..n |-> Entry(nfoFiles[i])]

\* C29: the utility emits one entry for every file, in the order of the
\* loop, whatever the downloads did: the array holds the entries of the
\* files finished, the file written those of all files; a download that
\* fails appends one line, which names its file, to the failure log, a
\* download that saves appends none, both hand over to the push of the
\* entry, and the script reaches its end.
C29_OneEntryPerFile ==
  /\ [](/\ entries = EntriesOf(nfoAt - 1)
        /\ Len(images) + Len(failedDownloads) =
             (nfoAt - 1) + (IF toolPc = "push" THEN 1 ELSE 0)
        /\ (toolPc = "done") => (outputJson = EntriesOf(Len(nfoFiles))))
  /\ [][/\ CheckAndSave
             => /\ toolPc' = "push"
                /\ (images' = images)
                     => /\ Len(failedDownloads') = Len(failedDownloads) + 1
                        /\ Front(failedDownloads') = failedDownloads
                        /\ Last(failedDownloads')[1] =
                             sanitizeTitle(NfoTitle[nfoFiles[nfoAt]])
                        /\ Last(failedDownloads')[3] = NfoYear[nfoFiles[nfoAt]]
                /\ (images' # images) => (failedDownloads' = failedDownloads)
        /\ (failedDownloads' # failedDownloads) => CheckAndSave]_vars
  /\ <>(toolPc = "done")

\* two files: the download of the first has failed and is in the log, the
\* image of the second is saved, the file written has both entries
C29_Witness ==
  /\ toolPc = "done"
  /\ Len(nfoFiles) = 2
  /\ nfoFiles[1] # nfoFiles[2]
  /\ Len(failedDownloads) = 1
  /\ images = <<ImageName(nfoFiles[2])>>
  /\ Len(outputJson) = 2
  /\ outputJson[1].id = nfoFiles[1]

\* a declared content type of the form image/*
DeclaresImage(contentType) == startsWith(contentType, <<"image/">>)

\* the step saves the image of the file at hand
SavesImage == images' = Append(images, ImageName(nfoFiles[nfoAt]))

\* C30 as stated: a poster that was fetched and whose body can be read is
\* saved if and only if its declared content type is of the form image/*.
C30_SavedIffImageType ==
  [][(CheckAndSave /\ response.fetched /\ response.body)
       => (SavesImage <=> DeclaresImage(response.contentType))]_vars

\* C30: a poster that was fetched and whose body can be read is saved if and
\* only if its declared content type starts with image/jpeg; a download
\* that saves writes one file and no log line, every other one (no header,
\* another type, another image type, a failed fetch or body) writes no file
\* and one line of the failure log.
C30_SavedIffJpegType ==
  [][CheckAndSave
       => LET ct == response.contentType
              jpeg == Len(ct) >= 2 /\ ct[1] = "image/" /\ ct[2] = "jpeg"
          IN /\ (response.fetched /\ response.body) => (SavesImage <=> jpeg)
             /\ SavesImage
                  => (response.fetched /\ response.body
                      /\ failedDownloads' = failedDownloads)
             /\ ~SavesImage
                  => /\ images' = images
                     /\ failedDownloads' =
                          Append(failedDownloads,
                                 LogLine(nfoFiles[nfoAt], response))]_vars

\* a poster declared image/png has been logged and not saved, one declared
\* image/jpeg with a parameter has been saved
C30_Witness ==
  /\ toolPc = "done"
  /\ Len(nfoFiles) = 2
  /\ failedDownloads =
       <<LogLine(nfoFiles[1], [fetched |-> TRUE,
                               contentType |-> <<"image/", "png">>,
                               body |-> TRUE])>>
  /\ images = <<ImageName(nfoFiles[2])>>
  /\ response.contentType = <<"image/", "jpeg", ";charset=binary">>

====
